---- MODULE Spec2Model ----
(***************************************************************************)
(* Model of Lab_1/Misha_Work/section_4.6.ipynb: the "pretty image"         *)
(* calibration notebook.  Frames are read from numbered FITS files, median *)
(* stacked per sequence, dark subtracted, registered with astroalign and   *)
(* written out as three FITS files.                                        *)
(*                                                                         *)
(* Arrays are records [shape, dtype, data]: data is row-major.  A uint16   *)
(* pixel is stored as its 16-bit word; a float32/float64 pixel is stored   *)
(* as twice its value (an integer number of halves), so that the mean of   *)
(* two integer pixels, which numpy's median takes for an even number of    *)
(* frames, is representable.                                               *)
(***************************************************************************)
EXTENDS Integers, Sequences, FiniteSets, TLC

VARIABLES
    fs,         \* input files: path -> [status, header, data]
    disk,       \* output files: name -> array (NoFile when absent)
    writable,   \* output names the writer can write
    pc,         \* position in the notebook (or in a direct call)
    frame,      \* the running loader call: its locals and position
    open,       \* handles (paths) of input files currently open
    opened,     \* paths opened by the running/last loader call, in order
    images,     \* dark_frames, pretty_*_images: channel -> list of (header, data)
    medians,    \* median_*: channel -> array
    subtracted, \* subtracted_*: channel -> array
    aligned,    \* aligned_blue, aligned_red: channel -> [aligned, footprint]
    args,       \* arguments of a direct call of one of the functions
    ret,        \* its return value
    err         \* the exception that ended the run: [kind, at]

vars == <<fs, disk, writable, pc, frame, open, opened, images, medians,
          subtracted, aligned, args, ret, err>>

----------------------------------------------------------------------------
(* Bounds of the model *)

\* direct loader calls draw start_index and end_index from 0..MaxIndex
MaxIndex == 2
\* direct calculate_median calls draw lists of 1..MaxFrames arrays
MaxFrames == 3
\* direct subtract calls draw shapes with every dimension in 1..MaxDim
MaxDim == 2

----------------------------------------------------------------------------
(* numpy arrays *)

Max(a, b) == IF a >= b THEN a ELSE b
Abs(n) == IF n < 0 THEN -n ELSE n

RECURSIVE Pow2(_)
Pow2(k) == IF k = 0 THEN 1 ELSE 2 * Pow2(k - 1)

\* number of bits of the magnitude n >= 0
RECURSIVE BitLen(_)
BitLen(n) == IF n = 0 THEN 0 ELSE 1 + BitLen(n \div 2)

\* Python's None, and an unbound notebook name, as array-typed markers
NoneVal == [shape |-> <<>>, dtype |-> "None", data |-> <<>>]
Unbound == [shape |-> <<>>, dtype |-> "unbound", data |-> <<>>]
IsArray(a) == a.dtype \in {"uint16", "float32", "float64"}

RECURSIVE Prod(_)
Prod(s) == IF s = <<>> THEN 1 ELSE Head(s) * Prod(Tail(s))

\* an array of the given shape: first pixel v1, every other pixel v2
Fill(shape, dtype, v1, v2) ==
    [shape |-> shape, dtype |-> dtype,
     data |-> [k \in 1..Prod(shape) |-> IF k = 1 THEN v1 ELSE v2]]

\* significand bits of a floating dtype (IEEE 754 binary32 / binary64)
Precision(dtype) == IF dtype = "float32" THEN 24 ELSE 53

\* h (in halves) rounded to the nearest value the dtype represents, ties to
\* even: values of at most Precision bits are exact
RoundFloat(dtype, h) ==
    LET bl == BitLen(Abs(h))
        p == Precision(dtype)
    IN  IF bl <= p THEN h
        ELSE LET ulp == Pow2(bl - p)
                 q == Abs(h) \div ulp
                 r == Abs(h) % ulp
                 up == (2 * r > ulp) \/ (2 * r = ulp /\ q % 2 = 1)
                 m == (IF up THEN q + 1 ELSE q) * ulp
             IN  IF h < 0 THEN -m ELSE m

\* numpy type promotion among the dtypes of the model
ResultType(d1, d2) ==
    IF d1 = d2 THEN d1
    ELSE IF "float64" \in {d1, d2} THEN "float64"
    ELSE "float32"

\* the pixel converted to dtype `to` (uint16 -> float is exact)
Cast(dtype, to, v) == IF dtype = "uint16" /\ to # "uint16" THEN 2 * v ELSE v

\* twice the numeric value of pixel k
Val2(a, k) == Cast(a.dtype, "float64", a.data[k])

\* numpy broadcasting, for arrays of one or two dimensions
Shape2(s) == IF Len(s) = 1 THEN <<1, s[1]>> ELSE s
Broadcastable(s1, s2) ==
    \A k \in 1..2 : \/ Shape2(s1)[k] = Shape2(s2)[k]
                    \/ Shape2(s1)[k] = 1
                    \/ Shape2(s2)[k] = 1
BroadcastShape(s1, s2) ==
    LET a == Shape2(s1)
        b == Shape2(s2)
    IN  IF Len(s1) = 1 /\ Len(s2) = 1 THEN <<Max(a[2], b[2])>>
        ELSE <<Max(a[1], b[1]), Max(a[2], b[2])>>

\* pixel (r, c) of `a` seen through broadcasting
At(a, r, c) ==
    LET s == Shape2(a.shape)
        rr == IF s[1] = 1 THEN 1 ELSE r
        cc == IF s[2] = 1 THEN 1 ELSE c
    IN  a.data[(rr - 1) * s[2] + cc]

\* the element-wise binary operation a (+/-) b of numpy: sign = 1 adds, -1
\* subtracts.  uint16 arithmetic wraps modulo 2^16, floating results are
\* rounded to the result dtype.  Returns NoneVal where numpy raises
\* "operands could not be broadcast together".
Elementwise(a, b, sign) ==
    IF ~Broadcastable(a.shape, b.shape) THEN NoneVal
    ELSE LET shape == BroadcastShape(a.shape, b.shape)
             s2 == Shape2(shape)
             dt == ResultType(a.dtype, b.dtype)
             px(k) ==
                 LET r == ((k - 1) \div s2[2]) + 1
                     c == ((k - 1) % s2[2]) + 1
                     x == Cast(a.dtype, dt, At(a, r, c))
                     y == Cast(b.dtype, dt, At(b, r, c))
                 IN  IF dt = "uint16" THEN (x + sign * y) % (2 ^ 16)
                     ELSE RoundFloat(dt, x + sign * y)
         IN  [shape |-> shape, dtype |-> dt,
              data |-> [k \in 1..Prod(shape) |-> px(k)]]

Add(a, b) == Elementwise(a, b, 1)

----------------------------------------------------------------------------
(* The functions of the notebook *)

\* [data for header, data in frames]
DataOf(frames) == [k \in 1..Len(frames) |-> frames[k][2]]

\* np.median keeps float32 and turns every other dtype into float64
MedianType(dtype) == IF dtype = "float32" THEN "float32" ELSE "float64"

RECURSIVE StackType(_)
StackType(data_list) ==
    IF Len(data_list) = 1 THEN data_list[1].dtype
    ELSE ResultType(data_list[1].dtype, StackType(Tail(data_list)))

\* the mean in place of the median: np.mean(np.array(data_list), axis=0)
RECURSIVE Sum(_)
Sum(xs) == IF xs = <<>> THEN 0 ELSE Head(xs) + Sum(Tail(xs))
MeanOf(xs, dt) ==
    RoundFloat(MedianType(dt),
               Sum([k \in 1..Len(xs) |-> Cast(dt, MedianType(dt), xs[k])]) \div Len(xs))

\* the median of the non-empty sequence xs of pixels of dtype dt, in halves:
\* the middle element of the sorted pixels, or the mean of the two middle
\* ones (pixels are integer valued, so their mean is a number of halves)
MedianOf(xs, dt) ==
    LET n == Len(xs)
        mt == MedianType(dt)
        sorted == SortSeq(xs, LAMBDA x, y : x < y)
        lo == Cast(dt, mt, sorted[(n + 1) \div 2])
        hi == Cast(dt, mt, sorted[(n \div 2) + 1])
    IN  IF n % 2 = 1 THEN lo
        ELSE RoundFloat(mt, RoundFloat(mt, lo + hi) \div 2)

\* calculate_median(data_list), for a non-empty list:
\* np.median(np.array(data_list), axis=0).  np.array raises ValueError
\* unless every element is an array of one shape; NoneVal stands for the
\* raise.
calculate_median(data_list) ==
    IF \E k \in 1..Len(data_list) :
           \/ ~IsArray(data_list[k])
           \/ data_list[k].shape # data_list[1].shape
    THEN NoneVal
    ELSE LET dt == StackType(data_list)
             n == Len(data_list)
             column(p) ==
                 [k \in 1..n |-> Cast(data_list[k].dtype, dt, data_list[k].data[p])]
         IN  [shape |-> data_list[1].shape, dtype |-> MedianType(dt),
              data |-> [p \in 1..Prod(data_list[1].shape) |->
                            MedianOf(column(p), dt)]]

\* the operands exchanged: median_dark - median_pretty
subtract_reversed(median_dark, median_pretty) ==
    Elementwise(median_dark, median_pretty, -1)

\* the difference clamped at zero: np.clip(median_pretty - median_dark, 0, None)
subtract_clamped(median_dark, median_pretty) ==
    LET d == Elementwise(median_pretty, median_dark, -1)
    IN  IF d = NoneVal THEN d
        ELSE [d EXCEPT !.data = [k \in 1..Len(d.data) |-> Max(d.data[k], 0)]]

\* subtract_median_dark_from_pretty(median_dark, median_pretty):
\* median_pretty - median_dark.  NoneVal stands for the raise.
subtract_median_dark_from_pretty(median_dark, median_pretty) ==
    Elementwise(median_pretty, median_dark, -1)

----------------------------------------------------------------------------
(* astroalign.register, as the pipeline cell calls it *)

Cells(a) ==
    {<<r, c>> : r \in 1..Shape2(a.shape)[1], c \in 1..Shape2(a.shape)[2]}

\* the background level of an image: its median pixel
Background(a) ==
    LET sorted == SortSeq(a.data, LAMBDA x, y : x < y)
    IN  sorted[(Len(sorted) + 1) \div 2]

\* the point sources of an image: the pixels above its background
Stars(a) == {p \in Cells(a) : At(a, p[1], p[2]) > Background(a)}

\* the translations that carry the sources of `source` onto those of `target`
Transforms(source, target) ==
    {t \in {<<q[1] - p[1], q[2] - p[2]>> : p \in Stars(source), q \in Stars(target)} :
        {<<p[1] + t[1], p[2] + t[2]>> : p \in Stars(source)} = Stars(target)}

\* source resampled through the translation t onto the grid of `target`:
\* pixels with no source data are 0 and marked in the footprint
Resample(source, target, t) ==
    LET s == Shape2(target.shape)
        src(k) == <<((k - 1) \div s[2]) + 1 - t[1], ((k - 1) % s[2]) + 1 - t[2]>>
    IN  [ok |-> TRUE,
         aligned |->
             [shape |-> target.shape, dtype |-> "float64",
              data |-> [k \in 1..Prod(target.shape) |->
                            IF src(k) \in Cells(source)
                            THEN Cast(source.dtype, "float64",
                                      At(source, src(k)[1], src(k)[2]))
                            ELSE 0]],
         footprint |-> [k \in 1..Prod(target.shape) |-> src(k) \notin Cells(source)]]

RegisterFailed == [ok |-> FALSE, aligned |-> NoneVal, footprint |-> <<>>]

\* a registration that falls back to the identity transform when it cannot
\* match the images
register_or_identity(source, target) ==
    IF \/ Cardinality(Stars(source)) < 3
       \/ Cardinality(Stars(target)) < 3
       \/ Transforms(source, target) = {}
    THEN Resample(source, target, <<0, 0>>)
    ELSE Resample(source, target, CHOOSE t \in Transforms(source, target) : TRUE)

\* aa.register(source, target): `source` transformed to coincide pixel to
\* pixel with `target`.  It raises when either image shows fewer than three
\* sources or no transformation matches them.
register(source, target) ==
    IF \/ Cardinality(Stars(source)) < 3
       \/ Cardinality(Stars(target)) < 3
       \/ Transforms(source, target) = {}
    THEN RegisterFailed
    ELSE Resample(source, target, CHOOSE t \in Transforms(source, target) : TRUE)

----------------------------------------------------------------------------
(* Files *)

Channels == {"dark", "red", "blue", "visible"}
Colors == {"red", "blue", "visible"}

dark_frame_file_template == "ring_nebula_dark_frame_10_sec.{:08d}.DARK.FIT"
red_file_template == "ring_nebula_for_10_sec_red.{:08d}.FIT"
blue_file_template == "ring_nebula_for_10_sec_blue.{:08d}.FIT"
visible_file_template == "ring_nebula_for_10_sec_visible.{:08d}.FIT"

Template(ch) ==
    CASE ch = "dark" -> dark_frame_file_template
      [] ch = "red" -> red_file_template
      [] ch = "blue" -> blue_file_template
      [] ch = "visible" -> visible_file_template

dark_start_index == 4
dark_end_index == 6
pretty_start_index == 0
pretty_end_index == 2

StartIndex(ch) == IF ch = "dark" THEN dark_start_index ELSE pretty_start_index
EndIndex(ch) == IF ch = "dark" THEN dark_end_index ELSE pretty_end_index

\* file_template.format(i): the template with i as eight zero-padded digits
Format(file_template, i) ==
    <<file_template, [k \in 1..8 |-> (i \div (10 ^ (8 - k))) % 10]>>

NoHeader == [template |-> "", frame |-> -1]
MissingFile == [status |-> "missing", header |-> NoHeader, data |-> NoneVal]

\* a file on disk: "ok" holds a primary image, "nodata" has a primary HDU
\* with a header and no image (its .data is None), "unreadable" fails when
\* its data is read, "missing" cannot be opened
FileAt(file_template, i, status, data) ==
    [status |-> status,
     header |-> [template |-> file_template, frame |-> i],
     data |-> IF status = "ok" THEN data ELSE NoneVal]

File(path) == IF path \in DOMAIN fs THEN fs[path] ELSE MissingFile

OutputNames == {"aligned_blue.fits", "aligned_red.fits", "aligned_green.fits"}
NoFile == Unbound
OldFile == Fill(<<1, 1>>, "float64", 2, 2)

----------------------------------------------------------------------------
(* Inputs of a pipeline run *)

FrameShape == <<1, 7>>

Level(ch) == IF ch = "dark" THEN 10 ELSE 50
Bright(ch) ==
    CASE ch = "red" -> 300
      [] ch = "blue" -> 200
      [] OTHER -> 100
StarCols(kind) == IF kind = "stars0" THEN {1, 3, 4} ELSE {2, 4, 5}

\* frame j (0, 1, 2) of a sequence of the given kind, as 16-bit pixels:
\*   flat    every pixel at the channel's level (dark 10, colors 50)
\*   faint   every pixel 5, below the dark level
\*   stars0  three stars on a background of 20; frame 1 has a cosmic-ray hit
\*   stars1  the same field one pixel to the right
\*   ragged  flat, but frame 2 is one column narrower
\*   pix     a one-pixel dark frame;  wide: a dark frame one column wider
SceneFrame(kind, ch, j) ==
    LET w == FrameShape[2]
        shape == CASE kind = "ragged" /\ j = 2 -> <<1, w - 1>>
                   [] kind = "pix" -> <<1, 1>>
                   [] kind = "wide" -> <<1, w + 1>>
                   [] OTHER -> FrameShape
        px(c) == CASE kind = "faint" -> 5
                   [] kind \in {"stars0", "stars1"} ->
                        IF c \in StarCols(kind) THEN Bright(ch)
                        ELSE IF j = 1 /\ c = w THEN 900
                        ELSE 20
                   [] OTHER -> Level(ch)
    IN  [shape |-> shape, dtype |-> "uint16",
         data |-> [c \in 1..Prod(shape) |-> px(c)]]

DarkKinds == {"flat", "pix", "wide"}
SceneKinds == {"flat", "faint", "stars0", "stars1", "ragged"}
FaultStatus == {"missing", "unreadable", "nodata"}
NoFault == [ch |-> "none", j |-> 0, status |-> "ok"]
Faults == [ch : Channels, j : 0..2, status : FaultStatus]
DiskCases == {"empty", "old", "readonly"}

\* the runs explored: every combination of sequence kinds with sound files,
\* and every single faulty file with two of the combinations
PipelineInputs ==
    [kind : [Channels -> DarkKinds \cup SceneKinds], fault : {NoFault}, disk : DiskCases]
    \cup [kind : {[ch \in Channels |-> "flat"],
                  [ch \in Channels |-> IF ch = "dark" THEN "flat" ELSE "stars0"]},
          fault : Faults, disk : {"empty"}]

ValidInput(in) ==
    /\ in.kind["dark"] \in DarkKinds
    /\ \A ch \in Colors : in.kind[ch] \in SceneKinds

PipelineFiles(in) ==
    LET paths == {Format(Template(ch), i) :
                      ch \in Channels, i \in pretty_start_index..dark_end_index}
        file(ch, i) ==
            IF i < StartIndex(ch) \/ i > EndIndex(ch) THEN MissingFile
            ELSE LET j == i - StartIndex(ch)
                 IN  FileAt(Template(ch), i,
                            IF in.fault.ch = ch /\ in.fault.j = j
                            THEN in.fault.status ELSE "ok",
                            SceneFrame(in.kind[ch], ch, j))
    IN  [p \in paths |->
            LET ch == CHOOSE c \in Channels : Template(c) = p[1]
                i == CHOOSE n \in pretty_start_index..dark_end_index :
                         Format(p[1], n) = p
            IN  file(ch, i)]

----------------------------------------------------------------------------
(* Initial states: a pipeline run, or a direct call of one function *)

IdleFrame ==
    [fn |-> "", file_template |-> "", start_index |-> 0, end_index |-> 0,
     next |-> 0, i |-> 0, file_path |-> <<>>, info |-> <<>>, exc |-> "",
     at |-> "idle"]
NoError == [kind |-> "", at |-> ""]
NotAligned == [ok |-> FALSE, aligned |-> Unbound, footprint |-> <<>>]

InitNotebook ==
    /\ frame = IdleFrame
    /\ open = {}
    /\ opened = <<>>
    /\ images = [ch \in Channels |-> <<>>]
    /\ medians = [ch \in Channels |-> Unbound]
    /\ subtracted = [ch \in Colors |-> Unbound]
    /\ aligned = [ch \in {"blue", "red"} |-> NotAligned]
    /\ err = NoError

InitPipeline ==
    /\ InitNotebook
    /\ \E in \in PipelineInputs :
          /\ ValidInput(in)
          /\ fs = PipelineFiles(in)
          /\ disk = [n \in OutputNames |-> IF in.disk = "old" THEN OldFile ELSE NoFile]
          /\ writable = IF in.disk = "readonly"
                        THEN OutputNames \ {"aligned_red.fits"}
                        ELSE OutputNames
    /\ pc = "load_dark"
    /\ args = [fn |-> "pipeline"]
    /\ ret = Unbound

Loaders == {"read_pretty_images", "read_dark_frames"}
LoaderChannel(fn) == IF fn = "read_dark_frames" THEN "dark" ELSE "red"

\* files 0..MaxIndex of one template, each present or faulty, and a call of
\* a loader over any index range within them
InitLoader ==
    /\ InitNotebook
    /\ \E fn \in Loaders, s \in 0..MaxIndex, e \in 0..MaxIndex,
          st \in [0..MaxIndex -> {"ok"} \cup FaultStatus] :
          LET t == Template(LoaderChannel(fn))
          IN  /\ fs = [p \in {Format(t, i) : i \in 0..MaxIndex} |->
                         LET i == CHOOSE n \in 0..MaxIndex : Format(t, n) = p
                         IN  FileAt(t, i, st[i], Fill(<<1, 2>>, "uint16", i, 7))]
              /\ args = [fn |-> fn, file_template |-> t,
                         start_index |-> s, end_index |-> e]
    /\ disk = [n \in OutputNames |-> NoFile]
    /\ writable = OutputNames
    /\ pc = "call"
    /\ ret = <<>>

InitArrays ==
    /\ InitNotebook
    /\ fs = << >>
    /\ disk = [n \in OutputNames |-> NoFile]
    /\ writable = OutputNames
    /\ pc = "call"
    /\ ret = Unbound

\* the frames given to direct calls of calculate_median
MedianArrays ==
    {Fill(shape, "uint16", v, 10) : shape \in {<<1, 2>>, <<2, 2>>}, v \in {5, 10, 50}}
    \cup {Fill(<<2, 2>>, "float32", 2 * v, 20) : v \in {5, 50}}

RECURSIVE SeqsUpTo(_, _)
SeqsUpTo(S, n) ==
    IF n = 0 THEN {<<>>}
    ELSE LET shorter == SeqsUpTo(S, n - 1)
         IN  shorter \cup {Append(q, x) : q \in shorter, x \in S}

InitMedian ==
    /\ InitArrays
    /\ \E data_list \in SeqsUpTo(MedianArrays, MaxFrames) \ {<<>>} :
          args = [fn |-> "calculate_median", data_list |-> data_list]

\* the arrays given to direct calls of subtract_median_dark_from_pretty:
\* 16-bit pixels 5 and 10, float32 pixels 1.0 and -2^24, float64 pixels 5.0
\* and 12.5
Shapes ==
    {<<m>> : m \in 1..MaxDim} \cup {<<n, m>> : n \in 1..MaxDim, m \in 1..MaxDim}
DirectValues(dtype) ==
    CASE dtype = "uint16" -> {5, 10}
      [] dtype = "float32" -> {2, -(2 ^ 25)}
      [] dtype = "float64" -> {10, 25}
SubArrays ==
    UNION {{Fill(shape, dtype, v1, v2) :
                shape \in Shapes, v1 \in DirectValues(dtype), v2 \in DirectValues(dtype)} :
           dtype \in {"uint16", "float32", "float64"}}

InitSubtract ==
    /\ InitArrays
    /\ \E median_dark \in SubArrays, median_pretty \in SubArrays :
          args = [fn |-> "subtract_median_dark_from_pretty",
                  median_dark |-> median_dark, median_pretty |-> median_pretty]

Init == InitPipeline \/ InitLoader \/ InitMedian \/ InitSubtract

----------------------------------------------------------------------------
(* The loaders: read_pretty_images and read_dark_frames (the same code) *)

Steps ==
    <<"load_dark", "load_red", "load_blue", "load_visible",
      "median_dark", "median_red", "median_blue", "median_visible",
      "sub_red", "sub_blue", "sub_visible",
      "register_blue", "register_red",
      "write_blue", "write_red", "write_green", "done">>
After(step) == Steps[(CHOOSE k \in 1..Len(Steps) : Steps[k] = step) + 1]

StepSet == {Steps[k] : k \in 1..Len(Steps)}
LoadSteps == {"load_dark", "load_red", "load_blue", "load_visible"}
StepChannel(step) ==
    CASE step \in {"load_dark", "median_dark"} -> "dark"
      [] step \in {"load_red", "median_red", "sub_red", "register_red", "write_red"} -> "red"
      [] step \in {"load_blue", "median_blue", "sub_blue", "register_blue", "write_blue"} -> "blue"
      [] OTHER -> "visible"

\* the exception is caught and the run goes on with the next step
RaiseAndGoOn(kind) ==
    /\ err' = [kind |-> kind, at |-> pc]
    /\ pc' = IF pc \in StepSet THEN After(pc) ELSE "returned"

\* the exception leaves the notebook cell: the run is over
Raise(kind) ==
    /\ err' = [kind |-> kind, at |-> pc]
    /\ pc' = "raised"

\* the call: the loader's locals are set up, the list is empty
CallLoader ==
    /\ frame.at = "idle"
    /\ \/ /\ pc \in LoadSteps
          /\ frame' = [IdleFrame EXCEPT
                 !.fn = IF pc = "load_dark" THEN "read_dark_frames"
                        ELSE "read_pretty_images",
                 !.file_template = Template(StepChannel(pc)),
                 !.start_index = StartIndex(StepChannel(pc)),
                 !.end_index = EndIndex(StepChannel(pc)),
                 !.next = StartIndex(StepChannel(pc)),
                 !.at = "for"]
       \/ /\ pc = "call"
          /\ args.fn \in Loaders
          /\ frame' = [IdleFrame EXCEPT
                 !.fn = args.fn,
                 !.file_template = args.file_template,
                 !.start_index = args.start_index,
                 !.end_index = args.end_index,
                 !.next = args.start_index,
                 !.at = "for"]
    /\ opened' = <<>>
    /\ UNCHANGED <<fs, disk, writable, pc, open, images, medians, subtracted,
                   aligned, args, ret, err>>

\* the loop over range(start_index, end_index): the last index is left out
LoaderForExclusive ==
    /\ frame.at = "for"
    /\ frame' = IF frame.next >= frame.end_index
                THEN [frame EXCEPT !.at = "return"]
                ELSE [frame EXCEPT !.i = frame.next,
                                   !.next = frame.next + 1,
                                   !.file_path = Format(frame.file_template, frame.next),
                                   !.at = "open"]
    /\ UNCHANGED <<fs, disk, writable, pc, open, opened, images, medians,
                   subtracted, aligned, args, ret, err>>

\* for i in range(start_index, end_index + 1): file_path = file_template.format(i)
LoaderFor ==
    /\ frame.at = "for"
    /\ frame' = IF frame.next > frame.end_index
                THEN [frame EXCEPT !.at = "return"]
                ELSE [frame EXCEPT !.i = frame.next,
                                   !.next = frame.next + 1,
                                   !.file_path = Format(frame.file_template, frame.next),
                                   !.at = "open"]
    /\ UNCHANGED <<fs, disk, writable, pc, open, opened, images, medians,
                   subtracted, aligned, args, ret, err>>

\* with fits.open(file_path) as hdul: a missing file raises, no handle is left
LoaderOpen ==
    /\ frame.at = "open"
    /\ IF File(frame.file_path).status = "missing"
       THEN /\ frame' = [frame EXCEPT !.at = "raise", !.exc = "FileNotFoundError"]
            /\ UNCHANGED <<open, opened>>
       ELSE /\ frame' = [frame EXCEPT !.at = "with"]
            /\ open' = open \cup {frame.file_path}
            /\ opened' = Append(opened, frame.file_path)
    /\ UNCHANGED <<fs, disk, writable, pc, images, medians, subtracted,
                   aligned, args, ret, err>>

\* header = hdul[0].header; data = hdul[0].data; info.append((header, data))
LoaderBody ==
    /\ frame.at = "with"
    /\ LET f == File(frame.file_path)
       IN  frame' = IF f.status = "unreadable"
                    THEN [frame EXCEPT !.at = "unwind", !.exc = "OSError"]
                    ELSE [frame EXCEPT !.info = Append(frame.info, <<f.header, f.data>>),
                                       !.at = "exit"]
    /\ UNCHANGED <<fs, disk, writable, pc, open, opened, images, medians,
                   subtracted, aligned, args, ret, err>>

\* hdul.close() as the last statement of the loop body, without `with`: an
\* exception in the body leaves the file open
LoaderExitNoUnwind ==
    /\ frame.at \in {"exit", "unwind"}
    /\ open' = IF frame.at = "exit" THEN open \ {frame.file_path} ELSE open
    /\ frame' = [frame EXCEPT !.at = IF frame.at = "exit" THEN "for" ELSE "raise"]
    /\ UNCHANGED <<fs, disk, writable, pc, opened, images, medians, subtracted,
                   aligned, args, ret, err>>

\* the end of the with block, reached normally or by an exception: the file
\* is closed, and the loop goes on or the exception goes up
LoaderExit ==
    /\ frame.at \in {"exit", "unwind"}
    /\ open' = open \ {frame.file_path}
    /\ frame' = [frame EXCEPT !.at = IF frame.at = "exit" THEN "for" ELSE "raise"]
    /\ UNCHANGED <<fs, disk, writable, pc, opened, images, medians, subtracted,
                   aligned, args, ret, err>>

\* return info
LoaderReturn ==
    /\ frame.at = "return"
    /\ frame' = IdleFrame
    /\ IF pc \in LoadSteps
       THEN /\ images' = [images EXCEPT ![StepChannel(pc)] = frame.info]
            /\ pc' = After(pc)
            /\ UNCHANGED ret
       ELSE /\ ret' = frame.info
            /\ pc' = "returned"
            /\ UNCHANGED images
    /\ UNCHANGED <<fs, disk, writable, open, opened, medians, subtracted,
                   aligned, args, err>>

\* the exception leaves the loader: its list is dropped with its locals
LoaderRaise ==
    /\ frame.at = "raise"
    /\ frame' = IdleFrame
    /\ Raise(frame.exc)
    /\ UNCHANGED <<fs, disk, writable, open, opened, images, medians,
                   subtracted, aligned, args, ret>>

----------------------------------------------------------------------------
(* The pipeline cells *)

\* median_x = calculate_median(x_data), x_data = [data for header, data in x]
Median ==
    /\ pc \in {"median_dark", "median_red", "median_blue", "median_visible"}
    /\ LET ch == StepChannel(pc)
           m == calculate_median(DataOf(images[ch]))
       IN  IF m = NoneVal
           THEN Raise("ValueError") /\ UNCHANGED medians
           ELSE /\ medians' = [medians EXCEPT ![ch] = m]
                /\ pc' = After(pc)
                /\ UNCHANGED err
    /\ UNCHANGED <<fs, disk, writable, frame, open, opened, images, subtracted,
                   aligned, args, ret>>

\* subtracted_x = subtract_median_dark_from_pretty(median_dark, median_x)
Subtract ==
    /\ pc \in {"sub_red", "sub_blue", "sub_visible"}
    /\ LET ch == StepChannel(pc)
           d == subtract_median_dark_from_pretty(medians["dark"], medians[ch])
       IN  IF d = NoneVal
           THEN Raise("ValueError") /\ UNCHANGED subtracted
           ELSE /\ subtracted' = [subtracted EXCEPT ![ch] = d]
                /\ pc' = After(pc)
                /\ UNCHANGED err
    /\ UNCHANGED <<fs, disk, writable, frame, open, opened, images, medians,
                   aligned, args, ret>>

\* calibrated_images = [subtracted_visible, subtracted_blue, subtracted_red]
\* (Python's calibrated_images[k] is calibrated_images[k + 1] here)
calibrated_images == <<subtracted["visible"], subtracted["blue"], subtracted["red"]>>

\* the arguments of the two aa.register calls
RegisterCall(ch) ==
    [source |-> calibrated_images[1],
     target |-> IF ch = "blue" THEN calibrated_images[2] ELSE calibrated_images[3]]

\* aligned_x, footprint_x = aa.register(calibrated_images[0], calibrated_images[k])
Register ==
    /\ pc \in {"register_blue", "register_red"}
    /\ LET ch == StepChannel(pc)
           call == RegisterCall(ch)
           r == register(call.source, call.target)
       IN  IF ~r.ok
           THEN Raise("MaxIterError") /\ UNCHANGED aligned
           ELSE /\ aligned' = [aligned EXCEPT ![ch] = r]
                /\ pc' = After(pc)
                /\ UNCHANGED err
    /\ UNCHANGED <<fs, disk, writable, frame, open, opened, images, medians,
                   subtracted, args, ret>>

\* what each writeto call is given, and where it writes
WriteCall(step) ==
    CASE step = "write_blue" ->
             [name |-> "aligned_blue.fits", data |-> aligned["blue"].aligned]
      [] step = "write_red" ->
             [name |-> "aligned_red.fits", data |-> aligned["red"].aligned]
      [] step = "write_green" ->
             [name |-> "aligned_green.fits", data |-> calibrated_images[1]]

\* fits.PrimaryHDU(x).writeto(name, overwrite=True)
Write ==
    /\ pc \in {"write_blue", "write_red", "write_green"}
    /\ LET call == WriteCall(pc)
       IN  IF call.name \notin writable
           THEN Raise("OSError") /\ UNCHANGED disk
           ELSE /\ disk' = [disk EXCEPT ![call.name] = call.data]
                /\ pc' = After(pc)
                /\ UNCHANGED err
    /\ UNCHANGED <<fs, writable, frame, open, opened, images, medians,
                   subtracted, aligned, args, ret>>

----------------------------------------------------------------------------
(* Direct calls of the two array functions *)

CallMedian ==
    /\ pc = "call"
    /\ args.fn = "calculate_median"
    /\ LET m == calculate_median(args.data_list)
       IN  IF m = NoneVal
           THEN Raise("ValueError") /\ UNCHANGED ret
           ELSE ret' = m /\ pc' = "returned" /\ UNCHANGED err
    /\ UNCHANGED <<fs, disk, writable, frame, open, opened, images, medians,
                   subtracted, aligned, args>>

CallSubtract ==
    /\ pc = "call"
    /\ args.fn = "subtract_median_dark_from_pretty"
    /\ LET d == subtract_median_dark_from_pretty(args.median_dark, args.median_pretty)
       IN  IF d = NoneVal
           THEN Raise("ValueError") /\ UNCHANGED ret
           ELSE ret' = d /\ pc' = "returned" /\ UNCHANGED err
    /\ UNCHANGED <<fs, disk, writable, frame, open, opened, images, medians,
                   subtracted, aligned, args>>

Next ==
    \/ CallLoader
    \/ LoaderFor
    \/ LoaderOpen
    \/ LoaderBody
    \/ LoaderExit
    \/ LoaderReturn
    \/ LoaderRaise
    \/ Median
    \/ Subtract
    \/ Register
    \/ Write
    \/ CallMedian
    \/ CallSubtract

Spec == Init /\ [][Next]_vars

----------------------------------------------------------------------------
(* Properties *)

IsPipeline == args.fn = "pipeline"
Ended == pc \in {"done", "returned", "raised"}
StepIndex(step) == CHOOSE k \in 1..Len(Steps) : Steps[k] = step

\* C1: in the pipeline the visible image is the reference grid: aligned_blue.fits
\* holds the calibrated blue image resampled onto the visible image's grid,
\* aligned_red.fits the calibrated red image resampled onto it, and
\* aligned_green.fits the calibrated visible image untransformed.
C1_ColorsResampledOntoVisible ==
    (IsPipeline /\ pc = "done") =>
        /\ disk["aligned_blue.fits"] =
               register(subtracted["blue"], subtracted["visible"]).aligned
        /\ disk["aligned_red.fits"] =
               register(subtracted["red"], subtracted["visible"]).aligned
        /\ disk["aligned_green.fits"] = subtracted["visible"]

\* C2: every call of calculate_median on arrays not all of one shape, and
\* every call of subtract_median_dark_from_pretty on two arrays of different
\* shape, ends in an error and returns no array.
C2_ShapeMismatchRaises ==
    /\ (/\ args.fn = "calculate_median"
        /\ Ended
        /\ \E k \in 1..Len(args.data_list) :
               args.data_list[k].shape # args.data_list[1].shape)
           => (pc = "raised" /\ ret = Unbound)
    /\ (/\ args.fn = "subtract_median_dark_from_pretty"
        /\ Ended
        /\ args.median_dark.shape # args.median_pretty.shape)
           => (pc = "raised" /\ ret = Unbound)

\* the pipeline's outputs are as they were when the run began
Unwritten ==
    \/ disk = [n \in OutputNames |-> NoFile]
    \/ disk = [n \in OutputNames |-> OldFile]

\* the name the step assigns is still unbound
Unassigned(step) ==
    CASE step \in LoadSteps -> images[StepChannel(step)] = <<>>
      [] step \in {"median_dark", "median_red", "median_blue", "median_visible"} ->
             medians[StepChannel(step)] = Unbound
      [] step \in {"sub_red", "sub_blue", "sub_visible"} ->
             subtracted[StepChannel(step)] = Unbound
      [] step \in {"register_blue", "register_red"} ->
             aligned[StepChannel(step)] = NotAligned
      [] OTHER -> TRUE

WriteSteps == {"write_blue", "write_red", "write_green"}

\* C3: an error in loading, median reduction, dark subtraction or either
\* registration ends the pipeline run at once: the error is what the run ends
\* with, no later step runs or assigns anything (no default stands in for a
\* failed registration), and no output file is written.
C3_ErrorsAbortRun ==
    (IsPipeline /\ err # NoError) =>
        /\ pc = "raised"
        /\ ~ENABLED Next
        /\ err.at \notin WriteSteps =>
               /\ Unwritten
               /\ \A k \in StepIndex(err.at)..Len(Steps) : Unassigned(Steps[k])

\* a registration failed after the other one succeeded
C3_Witness ==
    /\ IsPipeline
    /\ pc = "raised"
    /\ err.at = "register_red"
    /\ aligned["blue"].ok

IsLoaderCall == args.fn \in Loaders

\* the list a loader must return for template t and the range s..e
ExpectedEntry(t, i) ==
    <<[template |-> t, frame |-> i], File(Format(t, i)).data>>
IsExpectedList(list, t, s, e) ==
    /\ Len(list) = e - s + 1
    /\ \A k \in 0..(e - s) : list[k + 1] = ExpectedEntry(t, s + k)

\* C4: over a range start_index <= end_index in which every file is readable
\* a loader returns end_index - start_index + 1 pairs, the k-th from the file
\* of index start_index + k.
C4_LoaderCountAndOrder ==
    /\ (/\ IsLoaderCall
        /\ Ended
        /\ args.start_index <= args.end_index
        /\ \A i \in args.start_index..args.end_index :
               File(Format(args.file_template, i)).status = "ok")
           => /\ pc = "returned"
              /\ IsExpectedList(ret, args.file_template,
                                args.start_index, args.end_index)
    /\ \A step \in LoadSteps :
           (/\ IsPipeline
            /\ pc \in StepSet
            /\ StepIndex(pc) > StepIndex(step))
               => IsExpectedList(images[StepChannel(step)],
                                 Template(StepChannel(step)),
                                 StartIndex(StepChannel(step)),
                                 EndIndex(StepChannel(step)))

\* a direct call over all the files returned
C4_Witness ==
    /\ IsLoaderCall
    /\ pc = "returned"
    /\ args.start_index = 0
    /\ args.end_index = MaxIndex
    /\ \A i \in 0..MaxIndex : File(Format(args.file_template, i)).status = "ok"
    /\ Len(ret) = MaxIndex + 1

\* C5: if any file of the range is missing, unreadable or lacks a primary
\* image array the loader call ends in an error, the caller gets no list, and
\* no file after the failing one is opened.
C5_LoaderAllOrNothing ==
    (/\ IsLoaderCall
     /\ Ended
     /\ \E i \in args.start_index..args.end_index :
            File(Format(args.file_template, i)).status # "ok")
        => /\ pc = "raised"
           /\ ret = <<>>
           /\ LET bad == CHOOSE i \in args.start_index..args.end_index :
                             /\ File(Format(args.file_template, i)).status # "ok"
                             /\ \A j \in args.start_index..(i - 1) :
                                    File(Format(args.file_template, j)).status = "ok"
              IN  \A k \in 1..Len(opened) :
                      \E i \in args.start_index..bad :
                          opened[k] = Format(args.file_template, i)

IsSubtractCall == args.fn = "subtract_median_dark_from_pretty"

\* twice the numeric values of the pixels
Values2(a) == [k \in 1..Len(a.data) |-> Val2(a, k)]

\* every pixel is a multiple of 0.5 small enough for sums and differences of
\* two such pixels to be exact in the dtype (always so for uint16 words)
SmallPixels(a) ==
    \/ a.dtype = "uint16"
    \/ \A k \in 1..Len(a.data) : BitLen(Abs(a.data[k])) <= Precision(a.dtype) - 2

\* C7 as claimed: for all equal-shaped arrays A (science) and B (dark) the
\* result D of the subtractor satisfies D + B == A element-wise exactly.
C7_RoundTripAllArrays ==
    (/\ IsSubtractCall
     /\ Ended
     /\ args.median_dark.shape = args.median_pretty.shape)
        => /\ pc = "returned"
           /\ Values2(Add(ret, args.median_dark)) = Values2(args.median_pretty)

\* C7 amended: for equal-shaped arrays A (science) and B (dark) the subtractor
\* returns D = A - B, and D + B == A element-wise exactly when each is an
\* unsigned 16-bit array or holds multiples of 0.5 small enough for the
\* difference to be exact in the result dtype, as the medians of 16-bit
\* frames in the pipeline always are.
C7_RoundTripExactArrays ==
    /\ (/\ IsSubtractCall
        /\ Ended
        /\ args.median_dark.shape = args.median_pretty.shape
        /\ SmallPixels(args.median_dark)
        /\ SmallPixels(args.median_pretty))
           => /\ pc = "returned"
              /\ Values2(Add(ret, args.median_dark)) = Values2(args.median_pretty)
    /\ \A ch \in Colors :
           (/\ IsPipeline
            /\ subtracted[ch] # Unbound
            /\ medians["dark"].shape = medians[ch].shape)
               => Values2(Add(subtracted[ch], medians["dark"])) = Values2(medians[ch])

\* a direct call on float64 arrays, the dark one the brighter, returned
C7_Witness ==
    /\ IsSubtractCall
    /\ pc = "returned"
    /\ args.median_dark.dtype = "float64"
    /\ args.median_pretty.dtype = "float64"
    /\ args.median_dark.shape = <<MaxDim, MaxDim>>
    /\ args.median_pretty.shape = <<MaxDim, MaxDim>>
    /\ args.median_dark.data[1] > args.median_pretty.data[1]
    /\ ret.data[1] < 0

IsMedianCall == args.fn = "calculate_median"

\* the k-th smallest of the values xs (k in 1..Len(xs))
Smallest(xs, k) ==
    CHOOSE v \in {xs[j] : j \in 1..Len(xs)} :
        /\ Cardinality({j \in 1..Len(xs) : xs[j] < v}) < k
        /\ Cardinality({j \in 1..Len(xs) : xs[j] <= v}) >= k

\* m is the per-pixel median of the equal-shaped arrays of data_list
IsMedianImage(m, data_list) ==
    LET n == Len(data_list)
    IN  /\ m.shape = data_list[1].shape
        /\ Len(m.data) = Prod(m.shape)
        /\ \A p \in 1..Prod(m.shape) :
               LET xs == [k \in 1..n |-> Val2(data_list[k], p)]
               IN  2 * Val2(m, p) =
                       Smallest(xs, (n + 1) \div 2) + Smallest(xs, (n \div 2) + 1)

SameShapes(data_list) ==
    \A k \in 1..Len(data_list) :
        /\ IsArray(data_list[k])
        /\ data_list[k].shape = data_list[1].shape

\* C8: for one or more arrays of one 2D shape calculate_median returns an
\* array of that shape holding at each pixel the median of the inputs at that
\* pixel; when every input holds the same constant c everywhere, so does the
\* result.
C8_MedianPerPixel ==
    /\ (IsMedianCall /\ Ended /\ SameShapes(args.data_list))
           => /\ pc = "returned"
              /\ IsMedianImage(ret, args.data_list)
              /\ \A c \in {Val2(args.data_list[1], 1)} :
                     (\A k \in 1..Len(args.data_list) :
                          \A p \in 1..Len(args.data_list[k].data) :
                              Val2(args.data_list[k], p) = c)
                         => \A p \in 1..Len(ret.data) : Val2(ret, p) = c
    /\ \A ch \in Channels :
           (IsPipeline /\ medians[ch] # Unbound)
               => IsMedianImage(medians[ch], DataOf(images[ch]))

\* a direct call on an even number of frames that differ returned
C8_Witness ==
    /\ IsMedianCall
    /\ pc = "returned"
    /\ Len(args.data_list) = 2
    /\ args.data_list[1].data[1] # args.data_list[2].data[1]
    /\ 2 * Val2(ret, 1) = Val2(args.data_list[1], 1) + Val2(args.data_list[2], 1)

\* the end-to-end scenario: every dark frame filled with 10, every frame of
\* every color filled with 50, all of one shape, all files sound
Scenario ==
    /\ IsPipeline
    /\ \A ch \in Channels :
           \A i \in StartIndex(ch)..EndIndex(ch) :
               /\ File(Format(Template(ch), i)).status = "ok"
               /\ File(Format(Template(ch), i)).data =
                      Fill(FrameShape, "uint16", Level(ch), Level(ch))
    /\ writable = OutputNames

\* the image of FrameShape with the value v (given doubled) at every pixel
Flat(v2) == Fill(FrameShape, "float64", v2, v2)

\* C9 as claimed: in the scenario the medians are 10 and 50, every subtracted
\* image is 40 everywhere, alignment leaves the images unchanged and the run
\* ends with the three output files written, each 40 everywhere.
C9_ScenarioWritesThreeFiles ==
    (Scenario /\ Ended)
        => /\ pc = "done"
           /\ medians = [ch \in Channels |-> IF ch = "dark" THEN Flat(20) ELSE Flat(100)]
           /\ subtracted = [ch \in Colors |-> Flat(80)]
           /\ disk = [n \in OutputNames |-> Flat(80)]

\* C9 amended: in the scenario the medians are 10 and 50 and every subtracted
\* image is 40 everywhere; the first registration then fails, the constant
\* images showing no point sources, so the run ends in that error with no
\* output file written and the files already at the output paths untouched.
C9_ScenarioEndsAtRegistration ==
    Scenario =>
        /\ Unwritten
        /\ pc # "done"
        /\ \A ch \in Channels :
               medians[ch] \in {Unbound, IF ch = "dark" THEN Flat(20) ELSE Flat(100)}
        /\ \A ch \in Colors : subtracted[ch] \in {Unbound, Flat(80)}
        /\ Ended => /\ err = [kind |-> "MaxIterError", at |-> "register_blue"]
                    /\ \A ch \in Colors : subtracted[ch] = Flat(80)
                    /\ aligned = [ch \in {"blue", "red"} |-> NotAligned]

\* the scenario's run has ended, over files written by an earlier run
C9_Witness ==
    /\ Scenario
    /\ pc = "raised"
    /\ disk = [n \in OutputNames |-> OldFile]
    /\ subtracted["visible"] = Flat(80)

\* the pixels of `out` where the science value is below the dark value hold
\* science - dark (all values doubled), seen through broadcasting
NegativesKept(out, science, dark) ==
    LET s == Shape2(out.shape)
    IN  \A r \in 1..s[1], c \in 1..s[2] :
            LET x == Cast(science.dtype, "float64", At(science, r, c))
                y == Cast(dark.dtype, "float64", At(dark, r, c))
            IN  x < y => Val2(out, (r - 1) * s[2] + c) = x - y

\* C10 as claimed: wherever the science value is below the dark value the
\* subtractor's result is the negative number science - dark, neither clamped
\* nor wrapped, in direct calls on pixel arrays and in the pipeline.
C10_NegativesKeptEverywhere ==
    /\ (IsSubtractCall /\ pc = "returned")
           => NegativesKept(ret, args.median_pretty, args.median_dark)
    /\ \A ch \in Colors :
           (IsPipeline /\ subtracted[ch] # Unbound)
               => NegativesKept(subtracted[ch], medians[ch], medians["dark"])

\* C10 amended: the subtractor never clamps, and wherever the science value is
\* below the dark value its result is the negative number science - dark when
\* at least one array is floating and the difference is exact, as in the
\* pipeline, where it is always given the float64 medians; given two unsigned
\* 16-bit pixel arrays directly, the result at such a pixel wraps to
\* science - dark + 2^16.
C10_NegativesKeptForFloats ==
    /\ (/\ IsSubtractCall
        /\ pc = "returned"
        /\ "uint16" # ResultType(args.median_dark.dtype, args.median_pretty.dtype)
        /\ SmallPixels(args.median_dark)
        /\ SmallPixels(args.median_pretty))
           => NegativesKept(ret, args.median_pretty, args.median_dark)
    /\ (/\ IsSubtractCall
        /\ pc = "returned"
        /\ args.median_dark.dtype = "uint16"
        /\ args.median_pretty.dtype = "uint16")
           => LET s == Shape2(ret.shape)
              IN  \A r \in 1..s[1], c \in 1..s[2] :
                      At(args.median_pretty, r, c) < At(args.median_dark, r, c)
                          => ret.data[(r - 1) * s[2] + c] =
                                 At(args.median_pretty, r, c)
                                 - At(args.median_dark, r, c) + 2 ^ 16
    /\ \A ch \in Colors :
           (IsPipeline /\ subtracted[ch] # Unbound)
               => NegativesKept(subtracted[ch], medians[ch], medians["dark"])

\* the pipeline subtracted a dark frame brighter than the science frame
C10_Witness ==
    /\ IsPipeline
    /\ subtracted["blue"] # Unbound
    /\ Val2(medians["blue"], 1) < Val2(medians["dark"], 1)
    /\ Val2(subtracted["blue"], 1) < 0

====
